---- MODULE Spec2Model ----
(***************************************************************************)
(* Neuroforge progression core (src/unnamed/part_000, the Neuroforge       *)
(* module): the localStorage-backed store, the XP / level logic, the       *)
(* streak and inactivity decay, the achievement evaluator, the toast       *)
(* queue, import / export / reset and the page initialisation.             *)
(*                                                                         *)
(* Representation.                                                         *)
(*  - A localStorage entry is the TEXT the browser keeps.  The text of a   *)
(*    JSON key is absent, unparseable ("corrupt") or the serialisation of  *)
(*    a JavaScript value; JSON_stringify / JSON_parse convert between the  *)
(*    text and the value, and JSON_parse fails on unparseable text.        *)
(*  - A JavaScript number is [n, half]: the number n, or n + 1/2 when      *)
(*    half is set (the non-integers a JSON document can carry), or NaN.    *)
(*  - A calendar day is a day number; toLocalISODate formats it as the     *)
(*    "YYYY-MM-DD" text and parseLocalISODate reads it back, or fails.     *)
(*  - localStorage itself is assumed to work (no quota / disabled-storage  *)
(*    exception), so safeSetRaw returns true.                              *)
(***************************************************************************)
EXTENDS Integers, Sequences, FiniteSets, TLC

\* ====== CONFIG ======
INACTIVITY_PENALTY_PER_DAY == 5
ONBOARDING_BASE_XP == 50
DEFAULT_XP == 0
DEFAULT_STREAK == 0

\* ====== bounds of the model ======
\* last calendar day the clock reaches (days are 0..MaxDay)
MaxDay == 3
\* Submit is disabled once history holds this many records
MaxHist == 2
\* XP-granting operations are disabled once XP would pass this value
MaxXP == 200
\* operations that enqueue toasts are disabled once the queue would pass this length
MaxQueue == 3
\* operations that raise the streak are disabled once it would pass this value
MaxStreak == 3

\* ====== JavaScript numbers ======
Num(i) == [n |-> i, half |-> FALSE, nan |-> FALSE]
NumHalf(i) == [n |-> i, half |-> TRUE, nan |-> FALSE]
NaN == [n |-> 0, half |-> FALSE, nan |-> TRUE]

\* Number.isFinite(x)
IsFinite(x) == ~x.nan

\* x + i for an integer i
NumPlus(x, i) == IF x.nan THEN NaN ELSE [x EXCEPT !.n = @ + i]

\* Math.floor(x)
MathFloor(x) == IF x.nan THEN NaN ELSE Num(x.n)

\* Math.max(0, x): NaN if x is NaN
MathMax0(x) == IF x.nan THEN NaN ELSE IF x.n < 0 THEN Num(0) ELSE x

\* x >= i for an integer i; every comparison with NaN is false
NumGE(x, i) == ~x.nan /\ x.n >= i

\* x * 10
NumTimes10(x) == IF x.nan THEN NaN ELSE Num(10 * x.n + (IF x.half THEN 5 ELSE 0))


\* ====== localStorage texts ======
\* an absent key: getItem returns null
NoText == [t |-> "absent", k |-> "none", items |-> <<>>]
\* a text JSON.parse rejects (such as "undefined")
CorruptText == [t |-> "corrupt", k |-> "none", items |-> <<>>]

\* JavaScript values that the JSON keys hold: a list, a plain object, null
JSList(s) == [k |-> "list", items |-> s]
JSObject == [k |-> "obj", items |-> <<>>]
JSNull == [k |-> "null", items |-> <<>>]
\* undefined: a value JSON.stringify turns into no JSON at all
JSUndefined == [k |-> "undefined", items |-> <<>>]

\* JSON.stringify(v) as localStorage keeps it: setItem(key, undefined) stores
\* the text "undefined", which is not JSON
JSON_stringify(v) ==
  IF v.k = "undefined" THEN CorruptText
  ELSE [t |-> "json", k |-> v.k, items |-> v.items]

\* JSON.parse(raw) for a text that parses
JSON_parse(raw) == [k |-> raw.k, items |-> raw.items]

\* whether JSON.parse(raw) throws
JSON_parse_throws(raw) == raw.t = "corrupt"

\* String(x) for a number, as the text of a numeric key
NoNumText == [t |-> "absent", n |-> 0, half |-> FALSE]
String(x) ==
  IF x.nan THEN [t |-> "nan", n |-> 0, half |-> FALSE]
  ELSE [t |-> "num", n |-> x.n, half |-> x.half]

\* Number(text) for the text of a numeric key
Number(raw) ==
  IF raw.t = "num" THEN [n |-> raw.n, half |-> raw.half, nan |-> FALSE] ELSE NaN

\* ====== DATE HELPERS (local calendar days) ======
NoDateText == [t |-> "absent", day |-> 0]
JunkDateText == [t |-> "junk", day |-> 0]

\* toLocalISODate(date): the "YYYY-MM-DD" text of a day
toLocalISODate(day) == [t |-> "iso", day |-> day]

\* parseLocalISODate(iso): null (ok = FALSE) unless the text has three numeric parts
parseLocalISODate(iso) ==
  IF iso.t = "iso" THEN [ok |-> TRUE, day |-> iso.day] ELSE [ok |-> FALSE, day |-> 0]

\* diffInDaysLocal(aISO, bISO): whole days from a to b, NaN if either fails to parse
diffInDaysLocal(aISO, bISO) ==
  LET a == parseLocalISODate(aISO)
      b == parseLocalISODate(bISO)
  IN  IF ~a.ok \/ ~b.ok THEN NaN ELSE Num(b.day - a.day)

\* ====== the store ======
EmptyStore ==
  [history |-> NoText, achievements |-> NoText, xp |-> NoNumText,
   streak |-> NoNumText, lastActive |-> NoDateText, lastIndex |-> NoNumText]

\* a variant of safeGetJSON that returns the fallback for a corrupt key but
\* leaves the key as it is
safeGetJSON_NoReset(st, key, fallback) ==
  LET raw == st[key]
  IN  IF raw.t = "absent" THEN [val |-> fallback, st |-> st]
      ELSE IF JSON_parse_throws(raw) THEN [val |-> fallback, st |-> st]
      ELSE [val |-> JSON_parse(raw), st |-> st]

\* safeGetJSON(key, fallback): the value read, and the store afterwards (a
\* corrupt key is reset to the fallback)
safeGetJSON(st, key, fallback) ==
  LET raw == st[key]
  IN  IF raw.t = "absent" THEN [val |-> fallback, st |-> st]
      ELSE IF JSON_parse_throws(raw)
        THEN [val |-> fallback, st |-> [st EXCEPT ![key] = JSON_stringify(fallback)]]
      ELSE [val |-> JSON_parse(raw), st |-> st]

safeSetJSON(st, key, obj) == [st EXCEPT ![key] = JSON_stringify(obj)]

getHistory(st) == safeGetJSON(st, "history", JSList(<<>>))
saveHistory(st, history) == safeSetJSON(st, "history", history)

getAchievements(st) == safeGetJSON(st, "achievements", JSList(<<>>))
saveAchievements(st, a) == safeSetJSON(st, "achievements", a)

getXP(st) ==
  IF st.xp.t = "absent" THEN Num(DEFAULT_XP)
  ELSE IF IsFinite(Number(st.xp)) THEN Number(st.xp) ELSE Num(DEFAULT_XP)

setXP(st, v) == [st EXCEPT !.xp = String(MathMax0(MathFloor(v)))]

getStreak(st) ==
  IF st.streak.t = "absent" THEN Num(DEFAULT_STREAK)
  ELSE IF IsFinite(Number(st.streak)) THEN Number(st.streak) ELSE Num(DEFAULT_STREAK)

setStreak(st, v) == [st EXCEPT !.streak = String(MathMax0(MathFloor(v)))]

getLastActive(st) == st.lastActive
setLastActive(st, d) == [st EXCEPT !.lastActive = d]

setLastIndex(st, v) == [st EXCEPT !.lastIndex = String(Num(v))]

\* ====== XP & LEVEL LOGIC ======
\* Math.floor(100 * Math.pow(level, 1.4) + level * 50) for level = 1..11
XP_FOR_LEVEL == <<150, 363, 615, 896, 1201, 1528, 1874, 2237, 2617, 3011, 3420>>

xpForLevel(level) == XP_FOR_LEVEL[level]

RECURSIVE levelLoop(_, _)
levelLoop(remaining, level) ==
  IF remaining >= xpForLevel(level)
    THEN levelLoop(remaining - xpForLevel(level), level + 1)
    ELSE [level |-> level, current |-> remaining, required |-> xpForLevel(level)]

\* computeLevelFromXP(totalXP)
computeLevelFromXP(totalXP) == levelLoop(MathMax0(MathFloor(totalXP)).n, 1)

getLevel(st) == computeLevelFromXP(getXP(st)).level

\* ====== RANK HELPERS ======
calculateMindType(total) ==
  IF total >= 17 THEN "Focused Architect"
  ELSE IF total >= 13 THEN "Strategic Builder"
  ELSE IF total >= 10 THEN "Growing Explorer"
  ELSE "Unstable Dreamer"

calculateRank(total) ==
  IF total >= 17 THEN "Architect"
  ELSE IF total >= 13 THEN "Builder"
  ELSE IF total >= 10 THEN "Explorer"
  ELSE "Dreamer"

\* the same two functions in the other copies of the script
\* static/js/app.js
calculateMindType_app(total) ==
  IF total >= 17 THEN "Focused Architect"
  ELSE IF total >= 13 THEN "Strategic Builder"
  ELSE IF total >= 10 THEN "Growing Explorer"
  ELSE "Unstable Dreamer"

calculateRank_app(total) ==
  IF total >= 17 THEN "Architect"
  ELSE IF total >= 13 THEN "Builder"
  ELSE IF total >= 10 THEN "Explorer"
  ELSE "Dreamer"

\* the second script of part_000
calculateMindType_second(total) ==
  IF total >= 17 THEN "Focused Architect"
  ELSE IF total >= 13 THEN "Strategic Builder"
  ELSE IF total >= 10 THEN "Growing Explorer"
  ELSE "Unstable Dreamer"

calculateRank_second(total) ==
  IF total >= 17 THEN "Architect"
  ELSE IF total >= 13 THEN "Builder"
  ELSE IF total >= 10 THEN "Explorer"
  ELSE "Dreamer"

\* part_001
calculateMindType_first(total) ==
  IF total >= 16 THEN "Focused Architect"
  ELSE IF total >= 13 THEN "Strategic Explorer"
  ELSE IF total >= 10 THEN "Growing Explorer"
  ELSE "Unstable Dreamer"

calculateRank_first(total) ==
  IF total >= 17 THEN "Architect"
  ELSE IF total >= 13 THEN "Builder"
  ELSE IF total >= 10 THEN "Explorer"
  ELSE "Dreamer"

Variants == {"neuroforge", "app", "second", "first"}

\* calculateMindType(total) and calculateRank(total) of one copy
mindTypeOf(variant, total) ==
  CASE variant = "neuroforge" -> calculateMindType(total)
    [] variant = "app" -> calculateMindType_app(total)
    [] variant = "second" -> calculateMindType_second(total)
    [] variant = "first" -> calculateMindType_first(total)

rankOf(variant, total) ==
  CASE variant = "neuroforge" -> calculateRank(total)
    [] variant = "app" -> calculateRank_app(total)
    [] variant = "second" -> calculateRank_second(total)
    [] variant = "first" -> calculateRank_first(total)

\* ====== ACHIEVEMENTS ======
\* the static table: ids in table order, and whether the entry has a check
ALL_ACHIEVEMENTS ==
  << [id |-> "first_analysis", hasCheck |-> TRUE],
     [id |-> "three_day_streak", hasCheck |-> TRUE],
     [id |-> "seven_day_streak", hasCheck |-> TRUE],
     [id |-> "thirty_day_streak", hasCheck |-> TRUE],
     [id |-> "five_sessions", hasCheck |-> TRUE],
     [id |-> "level_5", hasCheck |-> TRUE],
     [id |-> "level_10", hasCheck |-> TRUE],
     [id |-> "builder_rank", hasCheck |-> TRUE],
     [id |-> "architect_rank", hasCheck |-> TRUE],
     [id |-> "night_owl", hasCheck |-> FALSE],
     [id |-> "early_bird", hasCheck |-> FALSE] >>

AchievementIds == {ALL_ACHIEVEMENTS[i].id : i \in 1..Len(ALL_ACHIEVEMENTS)}

\* the check of a table entry on a snapshot s
AchievementCheck(id, s) ==
  CASE id = "first_analysis" -> s.historyCount >= 1
    [] id = "three_day_streak" -> NumGE(s.streak, 3)
    [] id = "seven_day_streak" -> NumGE(s.streak, 7)
    [] id = "thirty_day_streak" -> NumGE(s.streak, 30)
    [] id = "five_sessions" -> s.historyCount >= 5
    [] id = "level_5" -> s.level >= 5
    [] id = "level_10" -> s.level >= 10
    [] id = "builder_rank" -> s.rank \in {"Builder", "Architect"}
    [] id = "architect_rank" -> s.rank = "Architect"
    [] OTHER -> FALSE

\* ids a caller outside the module may pass
ForeignId == "custom_badge"
IdUniverse == AchievementIds \cup {ForeignId}

Contains(seq, x) == \E i \in 1..Len(seq) : seq[i] = x

\* ====== the page: what a handler reads and writes ======
\* st: localStorage; q, active, timer, dom: the toast queue, its flag, the
\* pending toast timer and the toast elements in the document, oldest first;
\* ev: how often "neuroforge:achievement-unlocked" was dispatched per id
\* (0, 1, or 2 for "more than once"); wired: the onboarding submit handler is
\* attached and its button enabled; listening: the state-changed listener is
\* attached; page: the document loaded; thrown: the running handler threw;
\* ret: what the last call returned
NoEvents == [id \in IdUniverse |-> 0]

\* ====== TOAST QUEUE ======
\* a variant of processToast that takes the newest message
processToast_Newest(m) ==
  IF Len(m.q) = 0 THEN [m EXCEPT !.active = FALSE, !.timer = "idle"]
  ELSE [m EXCEPT !.active = TRUE, !.q = SubSeq(m.q, 1, Len(m.q) - 1),
                 !.dom = Append(m.dom, m.q[Len(m.q)]), !.timer = "display"]

processToast(m) ==
  IF Len(m.q) = 0 THEN [m EXCEPT !.active = FALSE, !.timer = "idle"]
  ELSE [m EXCEPT !.active = TRUE, !.q = Tail(m.q),
                 !.dom = Append(m.dom, Head(m.q)), !.timer = "display"]

showToast(m, message) ==
  LET m1 == [m EXCEPT !.q = Append(m.q, message)]
  IN  IF ~m1.active THEN processToast(m1) ELSE m1

\* ====== VIEWS ======
\* loadDashboard / loadResult / loadProfile on the current page: they read the
\* store through getHistory / getAchievements (which reset a corrupt key) and
\* throw on a value that is not a list
loadHistoryView(m) ==
  LET g == getHistory(m.st)
  IN  [m EXCEPT !.st = g.st, !.thrown = (g.val.k = "null")]

loadProfile(m) ==
  LET g == getHistory(m.st)
      a == getAchievements(g.st)
  IN  IF g.val.k # "list" THEN [m EXCEPT !.st = g.st, !.thrown = TRUE]
      ELSE [m EXCEPT !.st = a.st, !.thrown = (a.val.k # "list")]

loadViews(m) ==
  CASE m.page = "history_view" -> loadHistoryView(m)
    [] m.page = "profile" -> loadProfile(m)
    [] OTHER -> m

\* document.dispatchEvent(new CustomEvent("neuroforge:state-changed")): the
\* listener re-renders the views; what a listener throws is not rethrown
dispatchStateChanged(m) ==
  IF m.listening THEN [loadViews(m) EXCEPT !.thrown = m.thrown] ELSE m

\* ====== ACHIEVEMENT UNLOCK ======
BumpEvent(ev, id) == [ev EXCEPT ![id] = IF @ >= 1 THEN 2 ELSE 1]

\* variants of unlockAchievement: one without the includes test, one that
\* saves a list holding only the new id
unlockAchievement_NoIncludes(m, id) ==
  LET g == getAchievements(m.st)
      unlocked == g.val
  IN  IF unlocked.k # "list" THEN [m EXCEPT !.st = g.st, !.thrown = TRUE]
      ELSE LET m1 == [m EXCEPT !.st = saveAchievements(g.st, JSList(Append(unlocked.items, id)))]
               m2 == showToast(m1, id)
           IN  [m2 EXCEPT !.ev = BumpEvent(m2.ev, id), !.ret = TRUE]

unlockAchievement_Replace(m, id) ==
  LET g == getAchievements(m.st)
      unlocked == g.val
  IN  IF unlocked.k # "list" THEN [m EXCEPT !.st = g.st, !.thrown = TRUE]
      ELSE IF Contains(unlocked.items, id) THEN [m EXCEPT !.st = g.st, !.ret = FALSE]
      ELSE LET m1 == [m EXCEPT !.st = saveAchievements(g.st, JSList(<<id>>))]
               m2 == showToast(m1, id)
           IN  [m2 EXCEPT !.ev = BumpEvent(m2.ev, id), !.ret = TRUE]

\* unlockAchievement(id): unlocked.includes throws on a value that is not a list
unlockAchievement(m, id) ==
  LET g == getAchievements(m.st)
      unlocked == g.val
  IN  IF unlocked.k # "list" THEN [m EXCEPT !.st = g.st, !.thrown = TRUE]
      ELSE IF Contains(unlocked.items, id) THEN [m EXCEPT !.st = g.st, !.ret = FALSE]
      ELSE LET m1 == [m EXCEPT !.st = saveAchievements(g.st, JSList(Append(unlocked.items, id)))]
               m2 == showToast(m1, id)
           IN  [m2 EXCEPT !.ev = BumpEvent(m2.ev, id), !.ret = TRUE]

RECURSIVE checkFrom(_, _, _)
checkFrom(m, state, i) ==
  IF i > Len(ALL_ACHIEVEMENTS) \/ m.thrown THEN m
  ELSE LET a == ALL_ACHIEVEMENTS[i]
       IN  checkFrom(IF a.hasCheck /\ AchievementCheck(a.id, state)
                       THEN unlockAchievement(m, a.id) ELSE m,
                     state, i + 1)

\* a variant of checkAchievements that stops after the first table entry
checkAchievements_FirstOnly(m, state) ==
  IF ALL_ACHIEVEMENTS[1].hasCheck /\ AchievementCheck(ALL_ACHIEVEMENTS[1].id, state)
    THEN unlockAchievement(m, ALL_ACHIEVEMENTS[1].id) ELSE m

\* checkAchievements(state): the table in order; a throw ends the loop
checkAchievements(m, state) == checkFrom(m, state, 1)

\* checkTimeAchievements() at local hour `hour`
checkTimeAchievements(m, hour) ==
  LET m1 == IF hour >= 0 /\ hour <= 4 THEN unlockAchievement(m, "night_owl") ELSE m
  IN  IF m1.thrown THEN m1
      ELSE IF hour >= 5 /\ hour <= 8 THEN unlockAchievement(m1, "early_bird") ELSE m1

\* ====== XP / STREAK HANDLERS ======
\* grantXP(amount) for a numeric amount
grantXP(m, amount) ==
  LET m1 == [m EXCEPT !.st = setXP(m.st, NumPlus(getXP(m.st), amount))]
  IN  dispatchStateChanged(showToast(m1, "xp_gained"))

\* applyDailyXPDecay() on day `today`
applyDailyXPDecay(m, today) ==
  LET last == getLastActive(m.st)
      diffDays == diffInDaysLocal(last, toLocalISODate(today))
  IN  IF last.t = "absent" THEN m
      ELSE IF ~IsFinite(diffDays) THEN m
      ELSE IF diffDays.n >= 1
        THEN LET loss == diffDays.n * INACTIVITY_PENALTY_PER_DAY
             IN  showToast([m EXCEPT !.st = setXP(m.st, MathMax0(NumPlus(getXP(m.st), -loss)))],
                           "inactivity_penalty")
      ELSE m

\* a variant of the branches that counts a delta of 0 like a delta of 1
updateStreakBranch_SameDayCounts(m, today) ==
  LET last == getLastActive(m.st)
      diffDays == diffInDaysLocal(last, toLocalISODate(today))
  IN  IF last.t = "absent" THEN [m EXCEPT !.st = setStreak(m.st, Num(1))]
      ELSE IF ~IsFinite(diffDays) THEN [m EXCEPT !.st = setStreak(m.st, Num(1))]
      ELSE IF diffDays.n \in {0, 1}
        THEN showToast([m EXCEPT !.st = setStreak(m.st, NumPlus(getStreak(m.st), 1))],
                       "streak")
      ELSE IF diffDays.n > 1
        THEN applyDailyXPDecay([m EXCEPT !.st = setStreak(m.st, Num(1))], today)
      ELSE m

\* the branches of updateStreak() before setLastActive
updateStreakBranch(m, today) ==
  LET last == getLastActive(m.st)
      diffDays == diffInDaysLocal(last, toLocalISODate(today))
  IN  IF last.t = "absent" THEN [m EXCEPT !.st = setStreak(m.st, Num(1))]
      ELSE IF ~IsFinite(diffDays) THEN [m EXCEPT !.st = setStreak(m.st, Num(1))]
      ELSE IF diffDays.n = 1
        THEN showToast([m EXCEPT !.st = setStreak(m.st, NumPlus(getStreak(m.st), 1))],
                       "streak")
      ELSE IF diffDays.n > 1
        THEN applyDailyXPDecay([m EXCEPT !.st = setStreak(m.st, Num(1))], today)
      ELSE m

\* a variant of updateStreak that stores the date only when a branch changed
\* the store
updateStreak_DateOnChange(m, today) ==
  LET m1 == updateStreakBranch(m, today)
  IN  dispatchStateChanged(IF m1.st = m.st THEN m1
                           ELSE [m1 EXCEPT !.st = setLastActive(m1.st, toLocalISODate(today))])

\* updateStreak() on day `today`
updateStreak(m, today) ==
  LET m1 == updateStreakBranch(m, today)
  IN  dispatchStateChanged([m1 EXCEPT !.st = setLastActive(m1.st, toLocalISODate(today))])

\* ====== ONBOARDING ======
\* a variant of the record whose rank is taken from the first three ratings
AssessmentRecord_PartialRank(scores, today) ==
  LET total == scores[1] + scores[2] + scores[3] + scores[4]
  IN  [date |-> toLocalISODate(today),
       focus |-> scores[1], discipline |-> scores[2],
       execution |-> scores[3], consistency |-> scores[4],
       total |-> total,
       mindType |-> calculateMindType(total),
       rank |-> calculateRank(total - scores[4])]

\* the Assessment Record the submit handler builds from the four ratings
AssessmentRecord(scores, today) ==
  LET total == scores[1] + scores[2] + scores[3] + scores[4]
  IN  [date |-> toLocalISODate(today),
       focus |-> scores[1], discipline |-> scores[2],
       execution |-> scores[3], consistency |-> scores[4],
       total |-> total,
       mindType |-> calculateMindType(total),
       rank |-> calculateRank(total)]

\* the submit handler after history.push succeeded
submitTail(m, history, result, today, hour) ==
  LET m1 == [m EXCEPT !.st = setLastIndex(saveHistory(m.st, JSList(history)),
                                           Len(history) - 1)]
      m2 == updateStreak(m1, today)
      streakBonus == NumTimes10(getStreak(m2.st))
      xpGain == ONBOARDING_BASE_XP + result.total * 5 + streakBonus.n
      m3 == grantXP(m2, xpGain)
      state == [historyCount |-> Len(history),
                streak |-> getStreak(m3.st),
                xp |-> getXP(m3.st),
                level |-> getLevel(m3.st),
                rank |-> result.rank]
      m4 == checkAchievements(m3, state)
      m5 == IF m4.thrown THEN m4 ELSE checkTimeAchievements(m4, hour)
  IN  IF m5.thrown THEN m5 ELSE [m5 EXCEPT !.wired = FALSE]

\* the form's submit handler: history.push throws on a value that is not a list
submitHandler(m, scores, today, hour) ==
  LET g == getHistory(m.st)
      result == AssessmentRecord(scores, today)
  IN  IF g.val.k # "list" THEN [m EXCEPT !.st = g.st, !.thrown = TRUE]
      ELSE submitTail([m EXCEPT !.st = g.st], Append(g.val.items, result), result,
                      today, hour)

\* ====== EXPORT / IMPORT / RESET ======
\* a document handed to importData: kind is "object", "null" (JSON null) or
\* "unparseable"; history / achievements are JavaScript values (JSUndefined when
\* the field is missing); xp / streak are Number(obj.xp) / Number(obj.streak),
\* NaN when the field is missing; lastActive is a text, absent when missing
Truthy(v) == v.k \in {"list", "obj"}

importData(m, doc) ==
  IF doc.kind # "object"
    THEN [showToast(m, "import_failed") EXCEPT !.ret = FALSE]
  ELSE
    LET s1 == IF Truthy(doc.history) THEN safeSetJSON(m.st, "history", doc.history) ELSE m.st
        s2 == IF Truthy(doc.achievements)
                THEN safeSetJSON(s1, "achievements", doc.achievements) ELSE s1
        s3 == IF IsFinite(doc.xp) THEN [s2 EXCEPT !.xp = String(doc.xp)] ELSE s2
        s4 == IF IsFinite(doc.streak) THEN [s3 EXCEPT !.streak = String(doc.streak)] ELSE s3
        s5 == IF doc.lastActive.t # "absent"
                THEN [s4 EXCEPT !.lastActive = doc.lastActive] ELSE s4
        m1 == dispatchStateChanged([m EXCEPT !.st = s5])
    IN  [showToast(m1, "imported") EXCEPT !.ret = TRUE]

\* exportData(): the payload, and the document a reader of the downloaded file
\* gets from JSON.parse(JSON.stringify(payload)); null for history or
\* achievements reads as a value that is not truthy, null for lastActive as a
\* missing text
exportPayload(st) ==
  LET h == getHistory(st)
      a == getAchievements(h.st)
  IN  [st |-> a.st,
       payload |-> [history |-> h.val, achievements |-> a.val, xp |-> getXP(a.st),
                    streak |-> getStreak(a.st), lastActive |-> getLastActive(a.st)]]

exportDocument(payload) ==
  [kind |-> "object",
   history |-> JSON_parse(JSON_stringify(payload.history)),
   achievements |-> JSON_parse(JSON_stringify(payload.achievements)),
   xp |-> Number(String(payload.xp)),
   streak |-> Number(String(payload.streak)),
   lastActive |-> payload.lastActive]

exportData(m) ==
  showToast([m EXCEPT !.st = exportPayload(m.st).st], "exported")

\* resetAllData(confirmReset) when the user answers the confirm dialog with `confirmed`
resetAllData(m, confirmReset, confirmed) ==
  IF confirmReset /\ ~confirmed THEN [m EXCEPT !.ret = FALSE]
  ELSE LET m1 == dispatchStateChanged([m EXCEPT !.st = EmptyStore])
       IN  [showToast(m1, "reset") EXCEPT !.ret = TRUE]

\* ====== INITIALIZATION ======
\* the snapshot neuroforgeInit builds; history is a list or a plain object
initSnapshot(st, history) ==
  [historyCount |-> IF history.k = "list" THEN Len(history.items) ELSE 0,
   streak |-> getStreak(st),
   xp |-> getXP(st),
   level |-> getLevel(st),
   rank |-> IF history.k = "list" /\ Len(history.items) > 0
              THEN history.items[Len(history.items)].rank ELSE "none"]

\* neuroforgeInit() from the snapshot on: history[history.length - 1] throws on
\* null; the views are loaded after the form is wired and before the
\* state-changed listener is attached
initTail(m) ==
  LET g == getHistory(m.st)
      m1 == [m EXCEPT !.st = g.st]
      m2 == checkAchievements(m1, initSnapshot(m1.st, g.val))
      m3 == [m2 EXCEPT !.wired = (m2.page = "onboarding")]
      m4 == loadViews(m3)
  IN  IF g.val.k = "null" THEN [m1 EXCEPT !.thrown = TRUE]
      ELSE IF m2.thrown THEN m2
      ELSE IF m4.thrown THEN m4
      ELSE [m4 EXCEPT !.listening = TRUE]

\* a fresh document: no toast, no timer, no handler
FreshPage(m, p) ==
  [m EXCEPT !.q = <<>>, !.active = FALSE, !.timer = "idle", !.dom = <<>>,
            !.wired = FALSE, !.listening = FALSE, !.page = p]

\* neuroforgeInit() on DOMContentLoaded
neuroforgeInit(m, today, hour) ==
  LET m1 == applyDailyXPDecay(m, today)
      m2 == checkTimeAchievements(m1, hour)
  IN  IF m2.thrown THEN m2 ELSE initTail(m2)

\* ====== state ======
VARIABLES
  store,        \* localStorage
  toastQueue,   \* toastQueue
  toastActive,  \* toastActive
  toastTimer,   \* the pending toast timer: "idle", "display" or "transition"
  dom,          \* the toast elements in the document, oldest first
  events,       \* achievement-unlocked events dispatched per id (0, 1, 2 = more)
  wired,        \* the submit handler is attached and its button enabled
  listening,    \* the state-changed listener is attached
  page,         \* the document loaded: "none", "onboarding", "history_view", "profile"
  today,        \* the local calendar day
  hour,         \* the local hour of day
  op,           \* the last operation and its arguments
  pre,          \* store, toast queue and events before the last operation
  thrown,       \* the last operation threw
  ret,          \* what the last operation returned (unlock / import / reset)
  scen,         \* position in the five-days-then-a-gap run, and XP before the gap
  val,          \* the call of an accessor or pure function last made, and its value
  exported,     \* the document exportData last produced, and what was readable then
  loop          \* the while loop of computeLevelFromXP: its locals and position

vars == <<store, toastQueue, toastActive, toastTimer, dom, events, wired,
          listening, page, today, hour, op, pre, thrown, ret, scen,
          val, exported, loop>>

\* what the handlers and the clock leave alone
callVars == <<val, exported, loop>>

\* the page as the handlers see it
Cur ==
  [st |-> store, q |-> toastQueue, active |-> toastActive, timer |-> toastTimer,
   dom |-> dom, ev |-> events, wired |-> wired, listening |-> listening,
   page |-> page, thrown |-> FALSE, ret |-> FALSE]

Snapshot == [st |-> store, q |-> toastQueue, ev |-> events, dom |-> dom]

\* a document handed to importData that carries no field
DocNone ==
  [kind |-> "object", history |-> JSUndefined, achievements |-> JSUndefined,
   xp |-> NaN, streak |-> NaN, lastActive |-> NoDateText]

Op(name) == [name |-> name, id |-> "", k |-> 0, doc |-> DocNone]

NoVal == [fn |-> "none"]
NoExport == [made |-> FALSE]
LoopIdle == [pc |-> "idle"]

\* the handler's result becomes the next state
Apply(m, o) ==
  /\ store' = m.st
  /\ toastQueue' = m.q
  /\ toastActive' = m.active
  /\ toastTimer' = m.timer
  /\ dom' = m.dom
  /\ events' = m.ev
  /\ wired' = m.wired
  /\ listening' = m.listening
  /\ page' = m.page
  /\ thrown' = m.thrown
  /\ ret' = m.ret
  /\ op' = o
  /\ pre' = Snapshot

\* the same, within the bounds of the model
Commit(m, o) ==
  /\ Len(m.q) <= MaxQueue
  /\ getXP(m.st).n <= MaxXP
  /\ getStreak(m.st).n <= MaxStreak
  /\ Apply(m, o)
  /\ UNCHANGED <<today, hour, scen>>
  /\ UNCHANGED callVars

Init ==
  /\ store = EmptyStore
  /\ toastQueue = <<>>
  /\ toastActive = FALSE
  /\ toastTimer = "idle"
  /\ dom = <<>>
  /\ events = NoEvents
  /\ wired = FALSE
  /\ listening = FALSE
  /\ page = "none"
  /\ today = 0
  /\ hour = 12
  /\ op = Op("init")
  /\ pre = [st |-> EmptyStore, q |-> <<>>, ev |-> NoEvents, dom |-> <<>>]
  /\ thrown = FALSE
  /\ ret = FALSE
  /\ scen = [n |-> 1, phase |-> "load", xp0 |-> Num(0)]
  /\ val = NoVal
  /\ exported = NoExport
  /\ loop = LoopIdle

\* ====== operations ======
\* the clock moves to day d, hour h (d >= today), or back to an earlier day
\* (the user or the system sets the clock back)
Clock(d, h) ==
  /\ d >= today /\ d <= MaxDay
  /\ <<d, h>> # <<today, hour>>
  /\ today' = d /\ hour' = h
  /\ op' = Op("clock") /\ pre' = Snapshot
  /\ thrown' = FALSE /\ ret' = FALSE
  /\ UNCHANGED <<store, toastQueue, toastActive, toastTimer, dom, events, wired,
                 listening, page, scen>>
  /\ UNCHANGED callVars

ClockSkew(d) ==
  /\ d >= 0 /\ d < today
  /\ today' = d
  /\ op' = Op("clockSkew") /\ pre' = Snapshot
  /\ thrown' = FALSE /\ ret' = FALSE
  /\ UNCHANGED <<store, toastQueue, toastActive, toastTimer, dom, events, wired,
                 listening, page, hour, scen>>
  /\ UNCHANGED callVars

\* a document is loaded and DOMContentLoaded runs neuroforgeInit
PageLoad(p) ==
  Commit(neuroforgeInit(FreshPage(Cur, p), today, hour), Op("pageLoad"))

\* the user submits the onboarding form with the four ratings
Submit(scores) ==
  /\ wired
  /\ LET g == getHistory(store)
     IN  g.val.k = "list" => Len(g.val.items) < MaxHist
  /\ Commit(submitHandler(Cur, scores, today, hour), Op("submit"))

\* calls of the public API
ApiUpdateStreak == Commit(updateStreak(Cur, today), Op("updateStreak"))

ApiUnlockAchievement(id) ==
  Commit(unlockAchievement(Cur, id), [Op("unlockAchievement") EXCEPT !.id = id])

ApiSaveAchievements(a) ==
  Commit([Cur EXCEPT !.st = saveAchievements(store, a)], Op("saveAchievements"))

ApiImportData(doc) ==
  Commit(importData(Cur, doc), [Op("importData") EXCEPT !.doc = doc])

ApiSaveHistory(h) ==
  Commit([Cur EXCEPT !.st = saveHistory(store, h)], Op("saveHistory"))

\* an accessor called from outside: the value it returns is kept in val
Reads(g, name) ==
  /\ Apply([Cur EXCEPT !.st = g.st], Op(name))
  /\ val' = [fn |-> name, value |-> g.val]
  /\ UNCHANGED <<today, hour, scen, exported, loop>>

ApiGetHistory == Reads(getHistory(store), "getHistory")

ApiGetAchievements == Reads(getAchievements(store), "getAchievements")

\* what the five exported accessors return on a store
Observable(st) ==
  [history |-> getHistory(st).val, achievements |-> getAchievements(st).val,
   xp |-> getXP(st), streak |-> getStreak(st), lastActive |-> getLastActive(st)]

\* the export button or a call of exportData: the file is kept
ExportData ==
  /\ Apply(exportData(Cur), Op("exportData"))
  /\ Len(toastQueue') <= MaxQueue
  /\ exported' = [made |-> TRUE,
                  doc |-> exportDocument(exportPayload(store).payload),
                  seen |-> Observable(store)]
  /\ UNCHANGED <<today, hour, scen, val, loop>>

\* the file exported last is chosen in the import input
ImportExported ==
  /\ exported.made
  /\ Commit(importData(Cur, exported.doc),
            [Op("importData") EXCEPT !.doc = exported.doc, !.k = 1])

\* the reset button (confirmReset = TRUE) or a call of resetAllData
\* op.id tells what the confirm dialog did: it was not shown, the user
\* confirmed, or the user declined
ResetAllData(confirmReset, confirmed) ==
  Commit(resetAllData(Cur, confirmReset, confirmed),
         [Op("resetAllData") EXCEPT
            !.k = IF confirmReset /\ ~confirmed THEN 0 ELSE 1,
            !.id = IF ~confirmReset THEN "not asked"
                   ELSE IF confirmed THEN "confirmed" ELSE "declined"])

\* the toast timers: after TOAST_DISPLAY_MS the toast starts to fade; after
\* TOAST_TRANSITION_MS more it is removed and the next one is processed
ToastDisplayTimeout ==
  /\ toastTimer = "display"
  /\ Commit([Cur EXCEPT !.timer = "transition"], Op("toastHide"))

ToastTransitionTimeout ==
  /\ toastTimer = "transition"
  /\ Commit(processToast([Cur EXCEPT !.dom = Tail(dom)]), Op("toastNext"))

\* no toast is on screen or queued
Quiet == toastTimer = "idle"

\* ====== the five-days-then-a-gap run ======
\* submissions on five consecutive days, each after a page load, then a gap of
\* GapDays days, a page load and the sixth submission
GapDays == 3

ScenLoad ==
  /\ scen.phase = "load"
  /\ Apply(neuroforgeInit(FreshPage(Cur, "onboarding"), today, hour), Op("pageLoad"))
  /\ scen' = [scen EXCEPT !.phase = "submit"]
  /\ UNCHANGED <<today, hour>>
  /\ UNCHANGED callVars

ScenSubmit(scores) ==
  /\ scen.phase = "submit"
  /\ wired
  /\ LET m == submitHandler(Cur, scores, today, hour)
     IN  /\ Apply(m, Op("submit"))
         /\ scen' = [n |-> scen.n,
                     phase |-> IF scen.n = 6 THEN "done" ELSE "tick",
                     xp0 |-> IF scen.n = 5 THEN getXP(m.st) ELSE scen.xp0]
  /\ UNCHANGED <<today, hour>>
  /\ UNCHANGED callVars

ScenTick ==
  /\ scen.phase = "tick"
  /\ today' = today + (IF scen.n = 5 THEN GapDays ELSE 1)
  /\ scen' = [scen EXCEPT !.n = @ + 1, !.phase = "load"]
  /\ op' = Op("clock") /\ pre' = Snapshot
  /\ thrown' = FALSE /\ ret' = FALSE
  /\ UNCHANGED <<store, toastQueue, toastActive, toastTimer, dom, events, wired,
                 listening, page, hour>>
  /\ UNCHANGED callVars

\* ====== specifications ======
\* the user's day: the clock moves forward, a page is loaded, the form is
\* submitted, updateStreak is called from outside
Next ==
  \/ \E d \in 0..MaxDay : Clock(d, 12)
  \/ PageLoad("onboarding")
  \/ \E sc \in {<<1, 1, 1, 1>>, <<5, 5, 5, 5>>} : Submit(sc)
  \/ Quiet /\ ApiUpdateStreak

Spec == Init /\ [][Next]_vars

\* the streak tracker driven through the public API, with imported progress
StreakDocs ==
  { [DocNone EXCEPT !.xp = Num(7)],
    [DocNone EXCEPT !.xp = NumHalf(20)],
    [DocNone EXCEPT !.streak = Num(-3)],
    [DocNone EXCEPT !.lastActive = JunkDateText] }

NextStreak ==
  \/ \E d \in 0..MaxDay : Clock(d, 12)
  \/ \E d \in 0..MaxDay : ClockSkew(d)
  \/ PageLoad("history_view")
  \/ Quiet /\ ApiUpdateStreak
  \/ \E doc \in StreakDocs : Quiet /\ ApiImportData(doc)
  \/ ToastDisplayTimeout
  \/ ToastTransitionTimeout

SpecStreak == Init /\ [][NextStreak]_vars

\* the five-days-then-a-gap run
NextScenario ==
  \/ ScenLoad
  \/ \E sc \in {<<1, 1, 1, 1>>, <<5, 5, 5, 5>>} : ScenSubmit(sc)
  \/ ScenTick

SpecScenario == Init /\ [][NextScenario]_vars

\* achievements within one day: the hour moves, pages are loaded, the form is
\* submitted and unlockAchievement is called from outside
UnlockIds == {"night_owl", ForeignId}

NextUnlock ==
  \/ \E h \in {3, 7, 12} : Clock(today, h)
  \/ \E p \in {"onboarding", "profile"} : PageLoad(p)
  \/ \E sc \in {<<1, 1, 1, 1>>, <<5, 5, 5, 5>>} : Submit(sc)
  \/ \E id \in UnlockIds : ApiUnlockAchievement(id)
  \/ ToastDisplayTimeout
  \/ ToastTransitionTimeout

SpecUnlock == Init /\ [][NextUnlock]_vars

\* the same with imports, resets and a direct saveAchievements call, each
\* made while no toast is pending
AchDocs ==
  { [DocNone EXCEPT !.achievements = JSList(<<>>)],
    [DocNone EXCEPT !.achievements = JSList(<<ForeignId>>)] }

NextAch ==
  \/ \E h \in {3, 12} : Clock(today, h)
  \/ PageLoad("onboarding")
  \/ Submit(<<5, 5, 5, 5>>)
  \/ \E id \in UnlockIds : Quiet /\ ApiUnlockAchievement(id)
  \/ \E doc \in AchDocs : Quiet /\ ApiImportData(doc)
  \/ Quiet /\ ApiSaveAchievements(JSUndefined)
  \/ \E confirmed \in BOOLEAN : Quiet /\ ResetAllData(TRUE, confirmed)
  \/ ToastDisplayTimeout
  \/ ToastTransitionTimeout

SpecAch == Init /\ [][NextAch]_vars

\* the onboarding form on one day: the four selects take ratings 1..5
SubmitRatings ==
  {<<a, b, c, d>> : a \in 1..5, b \in {1, 5}, c \in {1, 5}, d \in {1, 5}}

\* a handler run whose result is kept whatever XP it reaches
Run(m, o) ==
  /\ Apply(m, o)
  /\ UNCHANGED <<today, hour, scen>>
  /\ UNCHANGED callVars

FormLoad ==
  Run(neuroforgeInit(FreshPage(Cur, "onboarding"), today, hour), Op("pageLoad"))

FormSubmit(scores) ==
  /\ wired
  /\ LET g == getHistory(store)
     IN  g.val.k = "list" => Len(g.val.items) < MaxHist
  /\ Run(submitHandler(Cur, scores, today, hour), Op("submit"))

NextSubmit ==
  \/ FormLoad
  \/ \E sc \in SubmitRatings : FormSubmit(sc)

SpecSubmit == Init /\ [][NextSubmit]_vars

\* a call outside the handlers: only the value returned changes
Returns(v) ==
  /\ val' = v
  /\ UNCHANGED <<store, toastQueue, toastActive, toastTimer, dom, events, wired,
                 listening, page, today, hour, op, pre, thrown, ret, scen,
                 exported, loop>>

\* the four ratings of a form are summed and classified by one copy of the script
Classify(variant, scores) ==
  LET total == scores[1] + scores[2] + scores[3] + scores[4]
  IN  /\ val = NoVal
      /\ Returns([fn |-> "classify", variant |-> variant, scores |-> scores,
                  total |-> total,
                  mindType |-> mindTypeOf(variant, total),
                  rank |-> rankOf(variant, total)])

NextClassify ==
  \E variant \in Variants, a \in 1..5, b \in 1..5, c \in 1..5, d \in 1..5 :
    Classify(variant, <<a, b, c, d>>)

SpecClassify == Init /\ [][NextClassify]_vars

\* computeLevelFromXP(totalXP) step by step: the call, the loop test with
\* one iteration of the body, and the return
MaxTotalXP == 1200

LoopSteps(l) ==
  /\ loop' = l
  /\ UNCHANGED <<store, toastQueue, toastActive, toastTimer, dom, events, wired,
                 listening, page, today, hour, op, pre, thrown, ret, scen,
                 exported>>

LevelCall(totalXP) ==
  /\ loop.pc = "idle"
  /\ LoopSteps([pc |-> "test", totalXP |-> totalXP,
                remaining |-> MathMax0(MathFloor(Num(totalXP))).n, level |-> 1])
  /\ UNCHANGED val

\* a variant of the loop body that leaves `remaining` as it is
LevelIterate_KeepRemaining ==
  /\ loop.pc = "test"
  /\ loop.remaining >= xpForLevel(loop.level)
  /\ LoopSteps([loop EXCEPT !.level = @ + 1])
  /\ UNCHANGED val

LevelIterate ==
  /\ loop.pc = "test"
  /\ loop.remaining >= xpForLevel(loop.level)
  /\ LoopSteps([loop EXCEPT !.remaining = @ - xpForLevel(loop.level),
                            !.level = @ + 1])
  /\ UNCHANGED val

LevelReturn ==
  /\ loop.pc = "test"
  /\ ~(loop.remaining >= xpForLevel(loop.level))
  /\ LoopSteps([loop EXCEPT !.pc = "done"])
  /\ val' = [fn |-> "computeLevelFromXP", level |-> loop.level,
             current |-> loop.remaining, required |-> xpForLevel(loop.level)]

NextLevel ==
  \/ \E totalXP \in 0..MaxTotalXP : LevelCall(totalXP)
  \/ LevelIterate
  \/ LevelReturn

\* a call that has started keeps running
SpecLevel == Init /\ [][NextLevel]_vars /\ WF_vars(LevelIterate \/ LevelReturn)

\* the history key is left unparseable (saveHistory(undefined) stores the text
\* "undefined") and is then read by the accessor, the page load and the form
NextHeal ==
  \/ \E p \in {"onboarding", "history_view", "profile"} : PageLoad(p)
  \/ \E sc \in {<<1, 1, 1, 1>>, <<5, 5, 5, 5>>} : Submit(sc)
  \/ Quiet /\ ApiSaveHistory(JSUndefined)
  \/ ApiGetHistory
  \/ ToastDisplayTimeout
  \/ ToastTransitionTimeout

SpecHeal == Init /\ [][NextHeal]_vars

\* values of another shape reach the JSON keys: importData with an object in
\* place of a list, saveHistory(null), saveHistory(undefined)
ShapeDocs ==
  { [DocNone EXCEPT !.history = JSObject],
    [DocNone EXCEPT !.achievements = JSObject] }

NextShape ==
  \/ \E p \in {"onboarding", "profile"} : PageLoad(p)
  \/ Submit(<<5, 5, 5, 5>>)
  \/ \E doc \in ShapeDocs : Quiet /\ ApiImportData(doc)
  \/ \E h \in {JSNull, JSUndefined} : Quiet /\ ApiSaveHistory(h)
  \/ ApiGetHistory
  \/ ApiGetAchievements
  \/ ToastDisplayTimeout
  \/ ToastTransitionTimeout

SpecShape == Init /\ [][NextShape]_vars

\* export, further activity on the same day, import of the exported file
NextRoundTrip ==
  \/ PageLoad("onboarding")
  \/ \E sc \in {<<1, 1, 1, 1>>, <<5, 5, 5, 5>>} : Submit(sc)
  \/ Quiet /\ ExportData
  \/ Quiet /\ ImportExported
  \/ ToastDisplayTimeout
  \/ ToastTransitionTimeout

SpecRoundTrip == Init /\ [][NextRoundTrip]_vars

\* documents of every kind are imported: well-formed fields, fields of the
\* wrong shape, a mix of both, JSON null, and a text that is not JSON
ImportDocs ==
  { [DocNone EXCEPT !.xp = Num(7)],
    [DocNone EXCEPT !.xp = NumHalf(20)],
    [DocNone EXCEPT !.streak = Num(-3)],
    [DocNone EXCEPT !.xp = Num(9), !.streak = NumHalf(1)],
    [DocNone EXCEPT !.lastActive = JunkDateText],
    [DocNone EXCEPT !.lastActive = toLocalISODate(0)],
    [DocNone EXCEPT !.history = JSObject],
    [DocNone EXCEPT !.history = JSList(<<>>), !.achievements = JSObject],
    [DocNone EXCEPT !.achievements = JSList(<<"early_bird">>)],
    [DocNone EXCEPT !.kind = "null"],
    [DocNone EXCEPT !.kind = "unparseable"] }

NextImport ==
  \/ PageLoad("onboarding")
  \/ Submit(<<5, 5, 5, 5>>)
  \/ \E doc \in ImportDocs : Quiet /\ ApiImportData(doc)
  \/ ToastDisplayTimeout
  \/ ToastTransitionTimeout

SpecImport == Init /\ [][NextImport]_vars

\* the reset button, answered either way, and resetAllData(false) called from
\* outside, on stores that page loads and submissions have filled
NextReset ==
  \/ \E h \in {3, 12} : Clock(today, h)
  \/ \E p \in {"onboarding", "profile"} : PageLoad(p)
  \/ \E sc \in {<<1, 1, 1, 1>>, <<5, 5, 5, 5>>} : Submit(sc)
  \/ \E confirmed \in BOOLEAN : ResetAllData(TRUE, confirmed)
  \/ ResetAllData(FALSE, FALSE)
  \/ ToastDisplayTimeout
  \/ ToastTransitionTimeout

SpecReset == Init /\ [][NextReset]_vars

\* ====== properties ======
\* the stored last active date before the last operation, and the day delta
\* the last operation saw
PreLast == pre.st.lastActive
PreDelta == today - PreLast.day

\* the last operation ran updateStreak to its end
RanUpdateStreak ==
  \/ op.name = "updateStreak"
  \/ op.name = "submit" /\ ~thrown

\* C1: updateStreak with lastActiveDate = D and today = D+k, k > 1, leaves
\* streak = 1 and XP = max(0, XP before - k * INACTIVITY_PENALTY_PER_DAY).
\* Refuted: a stored XP of 20.5 (importData stores any finite number) ends at 10.
C1_DecayExact ==
  (op.name = "updateStreak" /\ PreLast.t = "iso" /\ PreDelta > 1)
    => /\ getStreak(store) = Num(1)
       /\ getXP(store) =
            MathMax0(NumPlus(getXP(pre.st), -(PreDelta * INACTIVITY_PENALTY_PER_DAY)))

\* C3: with today the same day as, or one day after, lastActiveDate, no page
\* load and no submission reduces XP.
\* Refuted: neuroforgeInit runs applyDailyXPDecay, which penalises a delta of 1.
C3_NoPenaltyWithoutMissedDay ==
  (op.name \in {"pageLoad", "submit"} /\ PreLast.t = "iso" /\ PreDelta \in {0, 1})
    => NumGE(getXP(store), getXP(pre.st).n)

\* C4: updateStreak with today = lastActiveDate + 1 day adds one to the streak,
\* for every prior streak value.
\* Refuted: a stored streak of -3 (importData stores any finite number) ends at 0.
C4_StreakIncrements ==
  (op.name = "updateStreak" /\ PreLast.t = "iso" /\ PreDelta = 1)
    => getStreak(store) = NumPlus(getStreak(pre.st), 1)

\* C5: updateStreak on the day already stored as lastActiveDate leaves the
\* stored streak as it was, so same-day submissions after the first keep it.
C5_SameDayStreakUnchanged ==
  (RanUpdateStreak /\ PreLast = toLocalISODate(today))
    => store.streak = pre.st.streak

\* a second submission on the day of the first one
C5_Witness ==
  /\ op.name = "submit" /\ ~thrown
  /\ PreLast = toLocalISODate(today)
  /\ Len(getHistory(store).val.items) = 2
  /\ getStreak(store) = Num(1)

\* C6: updateStreak with today earlier than lastActiveDate resets streak to 1.
\* Refuted: no branch of updateStreak handles a negative delta; the streak stays.
C6_NegativeDeltaResets ==
  (op.name = "updateStreak" /\ PreLast.t = "iso" /\ PreDelta < 0)
    => ~thrown /\ getStreak(store) = Num(1)

\* C7: after updateStreak, whichever branch ran, lastActiveDate is today; with
\* no prior date the streak is 1.
C7_LastActiveIsToday ==
  RanUpdateStreak
    => /\ store.lastActive = toLocalISODate(today)
       /\ PreLast.t = "absent" => getStreak(store) = Num(1)

\* updateStreak ran with today earlier than the stored date
C7_Witness ==
  /\ op.name = "updateStreak"
  /\ PreLast.t = "iso" /\ PreDelta < 0
  /\ store.lastActive = toLocalISODate(today)

\* C2: after five submissions on consecutive days, a gap of GapDays days, a
\* page load and the sixth submission: streak = 1 and XP = max(0, XP before the
\* gap - GapDays * INACTIVITY_PENALTY_PER_DAY) + the sixth submission's gain.
\* Refuted: the page load and the submission each take the penalty.
SixthGain ==
  LET history == getHistory(store).val.items
  IN  ONBOARDING_BASE_XP + history[Len(history)].total * 5 + 10

C2_GapScenario ==
  scen.phase = "done"
    => /\ getStreak(store) = Num(1)
       /\ getXP(store) =
            NumPlus(MathMax0(NumPlus(scen.xp0, -(GapDays * INACTIVITY_PENALTY_PER_DAY))),
                    SixthGain)

\* the Unlock Set as getAchievements returns it, in unlock order
UnlockList(st) == getAchievements(st).val.items
UnlockSet(st) == {UnlockList(st)[i] : i \in 1..Len(UnlockList(st))}

\* C8: unlockAchievement with an id already in the Unlock Set leaves the store
\* unchanged, returns false, enqueues and shows no toast and dispatches no
\* unlocked event; over submissions and page loads each id is notified at most
\* once.
C8_UnlockIdempotent ==
  /\ (op.name = "unlockAchievement" /\ op.id \in UnlockSet(pre.st))
       => /\ store = pre.st
          /\ ret = FALSE /\ ~thrown
          /\ toastQueue = pre.q /\ dom = pre.dom
          /\ events = pre.ev
  /\ \A id \in IdUniverse : events[id] <= 1

\* unlockAchievement was called again for an id that a page load had unlocked
\* and notified
C8_Witness ==
  /\ op.name = "unlockAchievement" /\ op.id = "night_owl"
  /\ "night_owl" \in UnlockSet(pre.st)
  /\ events["night_owl"] = 1
  /\ Len(UnlockList(store)) >= 2

\* C9: in every reachable state the Unlock Set is a subset of the ids of
\* ALL_ACHIEVEMENTS.
\* Refuted: unlockAchievement stores whatever id it is given.
C9_UnlockSetInTable == UnlockSet(store) \subseteq AchievementIds

\* a is a subsequence of b
RECURSIVE IsSubseq(_, _)
IsSubseq(a, b) ==
  IF Len(a) = 0 THEN TRUE
  ELSE IF Len(b) = 0 THEN FALSE
  ELSE IF Head(a) = Head(b) THEN IsSubseq(Tail(a), Tail(b))
  ELSE IsSubseq(a, Tail(b))

\* the last step was a program step that is not a completed reset
StepNotReset ==
  /\ op.name \notin {"init", "clock", "clockSkew"}
  /\ ~(op.name = "resetAllData" /\ op.k = 1)

\* C10 as stated: every step other than a full reset keeps the ids of the
\* Unlock Set, in their order.
\* Refuted: importData overwrites the list with the document's.
C10_OnlyGrows ==
  StepNotReset => IsSubseq(UnlockList(pre.st), UnlockList(store))

\* C10, amended: every step other than a full reset, an import and a direct
\* saveAchievements call keeps the ids of the Unlock Set, in their order.
C10_OnlyGrowsButImport ==
  (StepNotReset /\ op.name \notin {"importData", "saveAchievements"})
    => IsSubseq(UnlockList(pre.st), UnlockList(store))

\* an unlock added an id behind two that were there
C10_Witness ==
  /\ op.name \in {"unlockAchievement", "submit", "pageLoad"}
  /\ Len(UnlockList(pre.st)) >= 2
  /\ Len(UnlockList(store)) > Len(UnlockList(pre.st))

\* a numeric key holds nothing, or the text of a non-negative integer
IsNonNegIntegerText(raw) ==
  raw.t = "absent" \/ (raw.t = "num" /\ ~raw.half /\ raw.n >= 0)

\* C11: in every reachable state the stored XP and the stored streak are
\* non-negative integers.
\* Refuted: importData stores String(Number(obj.xp)) for any finite number.
C11_StoredNonNegIntegers ==
  IsNonNegIntegerText(store.xp) /\ IsNonNegIntegerText(store.streak)

\* the records getHistory returns
HistoryRecords == getHistory(store).val.items

TierOf(total) ==
  IF total >= 17 THEN 4 ELSE IF total >= 13 THEN 3 ELSE IF total >= 10 THEN 2 ELSE 1

MindTypeTiers ==
  <<"Unstable Dreamer", "Growing Explorer", "Strategic Builder", "Focused Architect">>
RankTiers == <<"Dreamer", "Explorer", "Builder", "Architect">>

\* C13: for every total in 4..20 and every copy of the script, the mind type
\* and the rank are the tiers of the same index, with cut points 10, 13, 17.
\* Refuted: part_001 cuts the mind type at 16 and calls 13..15 "Strategic Explorer".
C13_SameCutPoints ==
  val.fn = "classify"
    => /\ val.total \in 4..20
       /\ val.mindType = MindTypeTiers[TierOf(val.total)]
       /\ val.rank = RankTiers[TierOf(val.total)]

\* xpForLevel(1) + ... + xpForLevel(n)
RECURSIVE SumXpForLevels(_)
SumXpForLevels(n) == IF n = 0 THEN 0 ELSE xpForLevel(n) + SumXpForLevels(n - 1)

\* what computeLevelFromXP returned is the level decomposition of totalXP
LevelResultExact ==
  loop.pc = "done"
    => /\ val.level >= 1
       /\ 0 <= val.current /\ val.current < val.required
       /\ val.required = xpForLevel(val.level)
       /\ val.current + SumXpForLevels(val.level - 1) = loop.totalXP
       /\ loop.totalXP = 0
            => val.level = 1 /\ val.current = 0 /\ val.required = xpForLevel(1)
       /\ computeLevelFromXP(Num(loop.totalXP))
            = [level |-> val.level, current |-> val.current, required |-> val.required]

\* C14: computeLevelFromXP terminates for every non-negative integer totalXP
\* and returns level >= 1, 0 <= current < required = xpForLevel(level) with
\* current + xpForLevel(1) + ... + xpForLevel(level - 1) = totalXP; for 0 it
\* returns level 1, current 0, required xpForLevel(1).
C14_LevelTerminatesExact ==
  /\ []LevelResultExact
  /\ (loop.pc = "test") ~> (loop.pc = "done")

\* a call that went round the loop three times before it returned
C14_Witness ==
  /\ loop.pc = "done"
  /\ val.level = 4
  /\ val.current > 0

\* the toasts in the document followed by the queued ones, oldest first
ToastsBefore == pre.dom \o pre.q
ToastsNow == dom \o toastQueue

\* b is a with at most `drop` messages gone from the front and any number
\* added at the back
FrontToBack(a, b, drop) ==
  \E k \in 0..drop :
    /\ k <= Len(a)
    /\ Len(b) >= Len(a) - k
    /\ SubSeq(b, 1, Len(a) - k) = SubSeq(a, k + 1, Len(a))

\* the last step ran in the document the step before it ran in
SameDocumentStep == op.name \notin {"init", "pageLoad"}

\* C15: toasts are displayed in the order showToast was called, whatever the
\* interleaving of handlers and timer callbacks: one toast is in the document
\* at a time, it is the oldest one pending, new messages go behind the pending
\* ones, and a drain step takes one message, the head of the queue.
C15_ToastFifo ==
  /\ Len(dom) <= 1
  /\ SameDocumentStep
       => /\ FrontToBack(ToastsBefore, ToastsNow, 1)
          /\ Len(toastQueue) >= Len(pre.q) - 1
  /\ (op.name = "toastNext" /\ Len(pre.q) > 0)
       => dom = <<Head(pre.q)>> /\ toastQueue = Tail(pre.q)
  /\ (op.name = "toastNext" /\ Len(pre.q) = 0)
       => dom = <<>> /\ toastQueue = <<>> /\ ~toastActive

\* a drain step showed the older of two queued messages
C15_Witness ==
  /\ op.name = "toastNext"
  /\ Len(pre.q) >= 2
  /\ pre.q[1] # pre.q[2]
  /\ dom = <<pre.q[1]>>
  /\ toastQueue[1] = pre.q[2]

EmptyList == JSList(<<>>)

C17_TypedFallback ==
  val.fn \in {"getHistory", "getAchievements"} => val.value.k = "list"

\* C18: importing the document exported in a state S, into any later state,
\* yields the history, achievements, xp, streak and lastActive of S.
\* Refuted: a document exported with no lastActive (null) leaves the later
\* lastActive in place.
C18_RoundTrip ==
  (op.name = "importData" /\ op.k = 1 /\ ret)
    => Observable(store) = exported.seen

\* x is a non-negative integer
IsNonNegInteger(x) == ~x.nan /\ ~x.half /\ x.n >= 0

\* C19: importData applies each of the five fields when it has the right
\* shape (a list, a non-negative integer, a date text) and leaves the store
\* entry alone otherwise; a document that cannot be parsed returns false and
\* changes nothing.
\* Refuted: any truthy history / achievements / lastActive and any finite xp /
\* streak is stored.
C19_ImportShapeChecks ==
  op.name = "importData"
    => IF op.doc.kind # "object"
         THEN ret = FALSE /\ store = pre.st
         ELSE /\ store.history = IF op.doc.history.k = "list"
                                   THEN JSON_stringify(op.doc.history)
                                   ELSE pre.st.history
              /\ store.achievements = IF op.doc.achievements.k = "list"
                                        THEN JSON_stringify(op.doc.achievements)
                                        ELSE pre.st.achievements
              /\ store.xp = IF IsNonNegInteger(op.doc.xp)
                              THEN String(op.doc.xp) ELSE pre.st.xp
              /\ store.streak = IF IsNonNegInteger(op.doc.streak)
                                  THEN String(op.doc.streak) ELSE pre.st.streak
              /\ store.lastActive = IF op.doc.lastActive.t = "iso"
                                      THEN op.doc.lastActive ELSE pre.st.lastActive

StoreKeys == {"history", "achievements", "xp", "streak", "lastActive", "lastIndex"}

\* the keys the last step removed
KeysRemoved == {key \in StoreKeys : pre.st[key].t # "absent" /\ store[key].t = "absent"}

\* C20: no key is removed unless the user confirmed the reset, and after a
\* confirmed reset all six keys are absent and every accessor returns its
\* fallback.
\* Refuted: resetAllData(false) removes the keys without showing the dialog.
C20_ResetGatedAndTotal ==
  /\ KeysRemoved # {} => (op.name = "resetAllData" /\ op.id = "confirmed")
  /\ (op.name = "resetAllData" /\ op.id = "declined") => store = pre.st /\ ret = FALSE
  /\ (op.name = "resetAllData" /\ op.id = "confirmed")
       => /\ \A key \in StoreKeys : store[key].t = "absent"
          /\ ret = TRUE
          /\ getHistory(store).val = EmptyList
          /\ getAchievements(store).val = EmptyList
          /\ getXP(store) = Num(DEFAULT_XP)
          /\ getStreak(store) = Num(DEFAULT_STREAK)
          /\ getLastActive(store) = NoDateText

\* how often x occurs in seq
Count(seq, x) == Cardinality({i \in 1..Len(seq) : seq[i] = x})

\* the snapshot the submit handler took: nothing it reads changes after it
SubmitSnapshot ==
  [historyCount |-> Len(HistoryRecords),
   streak |-> getStreak(store),
   xp |-> getXP(store),
   level |-> getLevel(store),
   rank |-> HistoryRecords[Len(HistoryRecords)].rank]

\* a snapshot on which every predicate of the table is true
FullSnapshot ==
  [historyCount |-> 5, streak |-> Num(30), xp |-> Num(0), level |-> 10,
   rank |-> "Architect"]

PredicateIds == {ALL_ACHIEVEMENTS[i].id : i \in {j \in 1..Len(ALL_ACHIEVEMENTS) :
                                                 ALL_ACHIEVEMENTS[j].hasCheck}}
TimeIds == AchievementIds \ PredicateIds

\* the ids the last step added to the Unlock Set
NewlyUnlocked == UnlockSet(store) \ UnlockSet(pre.st)

\* C21: after a submission every rule with a predicate that is true on the
\* submission's snapshot is in the Unlock Set; each id the submission added
\* was notified exactly once (one event, one toast) and no id it did not add
\* was notified; checkAchievements adds neither night_owl nor early_bird,
\* whatever the snapshot.
C21_SubmitUnlocksTrueRules ==
  /\ (op.name = "submit" /\ ~thrown)
       => /\ \A id \in PredicateIds :
               AchievementCheck(id, SubmitSnapshot) => id \in UnlockSet(store)
          /\ \A id \in IdUniverse :
               IF id \in NewlyUnlocked
                 THEN /\ events[id] = pre.ev[id] + 1
                      /\ Count(ToastsNow, id) = Count(ToastsBefore, id) + 1
                 ELSE /\ events[id] = pre.ev[id]
                      /\ Count(ToastsNow, id) <= Count(ToastsBefore, id)
          /\ \A id \in NewlyUnlocked \cap TimeIds :
               \/ id = "night_owl" /\ hour \in 0..4
               \/ id = "early_bird" /\ hour \in 5..8
  /\ \A snap \in {FullSnapshot} :
       UnlockSet(checkAchievements(Cur, snap).st) \ UnlockSet(store) = PredicateIds \ UnlockSet(store)

\* a submission on the third day of a streak added the streak rule to a set
\* that held first_analysis
C21_Witness ==
  /\ op.name = "submit" /\ ~thrown
  /\ "first_analysis" \in UnlockSet(pre.st)
  /\ NewlyUnlocked = {"three_day_streak"}
  /\ events["three_day_streak"] = 1

\* ====== RESULT ======
\* getLastIndex(): the stored number, or null when the key is absent or its
\* text is not a finite number
getLastIndex(st) ==
  IF st.lastIndex.t = "absent" THEN [null |-> TRUE, v |-> NaN]
  ELSE IF IsFinite(Number(st.lastIndex)) THEN [null |-> FALSE, v |-> Number(st.lastIndex)]
  ELSE [null |-> TRUE, v |-> NaN]

\* Math.max(0, Math.min(hi, x)) for a finite x
MathClamp(hi, x) ==
  IF x.n < 0 THEN Num(0)
  ELSE IF x.n > hi \/ (x.n = hi /\ x.half) THEN Num(hi)
  ELSE x

\* parseInt(text) for the text of a numeric key: the integer part, towards zero
parseInt(raw) ==
  IF raw.t # "num" THEN NaN
  ELSE IF raw.half /\ raw.n < 0 THEN Num(raw.n + 1)
  ELSE Num(raw.n)

\* the index loadResult reads history at, for a history of len records:
\* the module clamps getLastIndex() into 0..len-1 and takes the last record for
\* null; two copies take `+getItem(..) || len - 1`; one copy takes
\* `parseInt(getItem(..) || (len - 1))`
loadResultIndex(variant, st, len) ==
  LET n == Number(st.lastIndex)
      index == getLastIndex(st)
  IN  CASE variant = "neuroforge" ->
             MathClamp(len - 1, IF index.null THEN Num(len - 1) ELSE index.v)
        [] variant \in {"app", "second"} ->
             IF st.lastIndex.t = "absent" \/ n.nan \/ (n.n = 0 /\ ~n.half)
               THEN Num(len - 1) ELSE n
        [] variant = "first" ->
             IF st.lastIndex.t = "absent" THEN Num(len - 1) ELSE parseInt(st.lastIndex)

\* history[i] for a JavaScript number i: the element in a one-element
\* sequence, or the empty sequence for undefined
ElementAt(items, i) ==
  IF ~i.nan /\ ~i.half /\ i.n \in 0..(Len(items) - 1) THEN <<items[i.n + 1]>> ELSE <<>>

\* loadResult() on a document that has #result-title, with the history list
\* getHistory() returned: nothing is read from an empty history; otherwise the
\* record at the chosen index is taken, and `r.mindType` throws when there is
\* none
loadResult(variant, st, items) ==
  IF Len(items) = 0
    THEN [fn |-> "loadResult", variant |-> variant, read |-> FALSE]
  ELSE LET i == loadResultIndex(variant, st, Len(items))
       IN  [fn |-> "loadResult", variant |-> variant, read |-> TRUE,
            history |-> items, stored |-> st.lastIndex, index |-> i,
            shown |-> ElementAt(items, i), throws |-> ElementAt(items, i) = <<>>]

\* the ratings submitted and the files imported while the result view is observed
ResultRatings == {<<1, 1, 1, 1>>, <<1, 1, 1, 2>>}

ResultDocs ==
  { [DocNone EXCEPT !.history = JSList(<<AssessmentRecord(<<3, 3, 3, 3>>, 0)>>)],
    [DocNone EXCEPT !.history = JSList(<<>>)] }

\* what loadResult of the module reads during neuroforgeInit on result.html
\* (nothing when an earlier step of the page load threw)
ResultRead(m) ==
  LET g == getHistory(m.st)
  IN  IF m.thrown \/ g.val.k # "list" THEN NoVal
      ELSE loadResult("neuroforge", m.st, g.val.items)

\* result.html is loaded
ResultLoad ==
  LET m == neuroforgeInit(FreshPage(Cur, "history_view"), today, hour)
  IN  /\ Apply(m, Op("pageLoad"))
      /\ val' = ResultRead(m)
      /\ UNCHANGED <<today, hour, scen, exported, loop>>

\* the View Report button of record i on the profile page: the index is stored
\* and result.html is loaded
ViewReport(i) ==
  LET g == getHistory(store)
      m == neuroforgeInit(FreshPage([Cur EXCEPT !.st = setLastIndex(store, i)],
                                    "history_view"), today, hour)
  IN  /\ page = "profile" /\ listening
      /\ g.val.k = "list" /\ i \in 0..(Len(g.val.items) - 1)
      /\ Apply(m, [Op("viewReport") EXCEPT !.k = i])
      /\ val' = ResultRead(m)
      /\ UNCHANGED <<today, hour, scen, exported, loop>>

\* loadResult() of another copy of the script on the same store; it only reads
LoadResultCopy(variant) ==
  LET raw == store.history
      items == IF raw.t = "absent" THEN <<>> ELSE JSON_parse(raw).items
  IN  /\ page = "history_view"
      /\ ~JSON_parse_throws(raw)
      /\ raw.t # "absent" => JSON_parse(raw).k = "list"
      /\ Returns(loadResult(variant, store, items))

\* a file is imported, or the data is reset, on the page that is open
ImportFile(doc) == toastQueue = <<>> /\ ApiImportData(doc)

ResetConfirmed == toastQueue = <<>> /\ ResetAllData(TRUE, TRUE)

NextResult ==
  \/ \E p \in {"onboarding", "profile"} : PageLoad(p)
  \/ \E sc \in ResultRatings : Submit(sc)
  \/ \E i \in 0..(MaxHist - 1) : ViewReport(i)
  \/ ResultLoad
  \/ \E variant \in Variants \ {"neuroforge"} : LoadResultCopy(variant)
  \/ \E doc \in ResultDocs : ImportFile(doc)
  \/ ResetConfirmed

SpecResult == Init /\ [][NextResult]_vars

\* the stored last-viewed index is the text of an integer that is a valid
\* index of the history loadResult got
StoredValid(v) ==
  v.stored.t = "num" /\ ~v.stored.half /\ v.stored.n \in 0..(Len(v.history) - 1)

\* C22: whenever loadResult reads a record from a non-empty history, (a) a
\* stored last-viewed index that is a valid index of the history, index 0
\* included, is the index read, and the record shown is history[that index];
\* (b) for any stored index the index read is an integer within
\* 0..len(history)-1
C22_ResultShowsStoredIndex ==
  (val.fn = "loadResult" /\ val.read) =>
    /\ StoredValid(val) =>
         /\ val.index = Num(val.stored.n)
         /\ val.shown = <<val.history[val.stored.n + 1]>>
    /\ ~val.index.nan /\ ~val.index.half
    /\ val.index.n \in 0..(Len(val.history) - 1)

\* the same statement for the module's own loadResult alone
C22_ModuleClamps ==
  (val.fn = "loadResult" /\ val.read /\ val.variant = "neuroforge") =>
    /\ StoredValid(val) =>
         /\ val.index = Num(val.stored.n)
         /\ val.shown = <<val.history[val.stored.n + 1]>>
    /\ ~val.index.nan /\ ~val.index.half
    /\ val.index.n \in 0..(Len(val.history) - 1)
    /\ ~val.throws

\* the module reads a record at a stored index that import left out of range
C22_ModuleOutOfRange ==
  /\ val.fn = "loadResult" /\ val.read /\ val.variant = "neuroforge"
  /\ val.stored.t = "num" /\ val.stored.n >= Len(val.history)
  /\ val.index = Num(Len(val.history) - 1)

\* ====== the toast queue under timers that fire ======
\* the submit handler ran to its end on this document: its button is disabled
\* and its 500 ms timer is pending
NavigationPending == page = "onboarding" /\ listening /\ ~wired

\* the submit handler's timer: window.location.href = "result.html" replaces
\* the document, and the new one runs neuroforgeInit
ResultNavigation ==
  /\ NavigationPending
  /\ PageLoad("history_view")

\* the form is opened while no toast is pending; messages are passed to
\* showToast by submissions and by unlockAchievement calls on the open
\* document while toasts are pending, and the timers fire
ToastIds == {"night_owl", "early_bird", ForeignId}

NextToast ==
  \/ Quiet /\ PageLoad("onboarding")
  \/ \E sc \in {<<1, 1, 1, 1>>, <<5, 5, 5, 5>>} : Submit(sc)
  \/ \E id \in ToastIds : page # "none" /\ ApiUnlockAchievement(id)
  \/ ResultNavigation
  \/ ToastDisplayTimeout
  \/ ToastTransitionTimeout

\* the two toast timers fire, and so does the navigation timer: ResultNavigation
\* is enabled exactly while NavigationPending holds and a step of it ends that,
\* so its weak fairness is []<>~NavigationPending
SpecToast ==
  /\ Init /\ [][NextToast]_vars
  /\ WF_vars(ToastDisplayTimeout)
  /\ WF_vars(ToastTransitionTimeout)
  /\ []<>~NavigationPending

\* the messages showToast is called with under SpecToast
ToastMessages == {"xp_gained", "first_analysis", "builder_rank", "architect_rank"} \cup ToastIds

\* a drain step displays one message, the head of the queue, and takes it out
\* of the queue; at most one toast is in the document
OneAtATime ==
  /\ Len(dom) <= 1
  /\ (op.name = "toastNext" /\ Len(pre.q) > 0)
       => dom = <<Head(pre.q)>> /\ toastQueue = Tail(pre.q)
  /\ (toastActive <=> Len(dom) = 1)

\* C23: every message passed to showToast is eventually displayed, exactly
\* once and one at a time, and toastActive returns to false, whatever the
\* interleaving of showToast calls and timer callbacks, the timers being fair
C23_ToastsEventuallyShown ==
  /\ []OneAtATime
  /\ \A x \in ToastMessages : Contains(toastQueue, x) ~> Contains(dom, x)
  /\ toastActive ~> ~toastActive

\* the same where a message may instead be lost with the document it was
\* queued in
C23_ShownOrDocumentReplaced ==
  /\ []OneAtATime
  /\ \A x \in ToastMessages :
       Contains(toastQueue, x) ~> (Contains(dom, x) \/ op.name = "pageLoad")
  /\ toastActive ~> ~toastActive

\* a submission left its achievement toast queued behind the XP toast, with
\* the navigation timer pending
C23_QueuedAtNavigation ==
  /\ NavigationPending
  /\ dom = <<"xp_gained">>
  /\ Contains(toastQueue, "first_analysis")
====
